---- MODULE Spec2Model ----
(***************************************************************************)
(* Model of TTN.ino: the setup()/loop() sketch that brings up the Heltec   *)
(* V3 SX1262 radio, joins TTN by OTAA and sends "Hello" every 60 seconds.  *)
(* The RadioLib driver, the Serial port and the millisecond clock are the  *)
(* environment: every driver call returns a code drawn from Codes, the     *)
(* serial port becomes ready at some moment, the clock advances between    *)
(* any two statements.                                                     *)
(***************************************************************************)
EXTENDS Integers, Sequences, FiniteSets

VARIABLES pc,            \* position of the single thread of control
          serialReady,   \* value of (bool)Serial
          pinMode14,     \* direction of GPIO 14
          pinLevel14,    \* level driven on GPIO 14
          spiBegun,      \* SPI.begin has been called
          bringUpOk,     \* whether the hardware actually came up (never read by the sketch)
          state,         \* `int state` of setup()
          loopState,     \* `int state` of loop()
          macVersion,    \* MAC version held by the node
          clock,         \* millis(): 32-bit unsigned, as <<high half, low half>>
          lastSendTime,  \* `static unsigned long lastSendTime` of loop()
          payload,       \* bytes handed to the sendReceive call in progress / last made
          log,           \* lines written to Serial, in order
          calls,         \* Radio/MAC driver operations invoked, in order
          driverRet,     \* code last returned by each driver operation that has returned
          ticks,         \* number of clock advances so far
          sinceStamp,    \* true ms since lastSendTime was last assigned (saturating)
          gapAtStamp,    \* sinceStamp as it was when lastSendTime was last assigned
          sinceInvoke,   \* true ms since sendReceive was last invoked (saturating)
          gapAtInvoke,   \* sinceInvoke as it was when sendReceive was last invoked
          wrapped,       \* 2^32 ms or more have passed since lastSendTime was last
                         \* assigned (since boot, before the first assignment)
          lastCall,      \* sinceInvoke and wrapped as they were when sendReceive
                         \* last returned
          passes         \* times loop() has tested the interval since setup()
                         \* returned or sendReceive last returned (2 = more)

vars == <<pc, serialReady, pinMode14, pinLevel14, spiBegun, bringUpOk, state,
          loopState, macVersion, clock, lastSendTime, payload, log, calls,
          driverRet, ticks, sinceStamp, gapAtStamp, sinceInvoke, gapAtInvoke,
          wrapped, lastCall, passes>>

----------------------------------------------------------------------------
(* Bounds of the model *)

MaxTicks == 3

----------------------------------------------------------------------------
(* Program constants *)

RADIOLIB_ERR_NONE == 0
RADIOLIB_LORAWAN_NEW_SESSION == -1118
MIC_MISMATCH == -1116
Interval == 60000
HelloPayload == <<72, 101, 108, 108, 111>>   \* 0x48 0x65 0x6C 0x6C 0x6F

\* result codes a driver operation may return
Codes == {RADIOLIB_ERR_NONE, RADIOLIB_LORAWAN_NEW_SESSION, MIC_MISMATCH}

----------------------------------------------------------------------------
(* unsigned long: 32-bit unsigned arithmetic on <<high 16 bits, low 16 bits>> *)

Half == 2^16

U32(hi, lo) == <<hi, lo>>

Add32(a, b) ==
  LET lo == a[2] + b[2]
      hi == a[1] + b[1] + (lo \div Half)
  IN  <<hi % Half, lo % Half>>

Sub32(a, b) ==
  LET borrow == IF a[2] < b[2] THEN 1 ELSE 0
      lo == a[2] - b[2] + Half
      hi == a[1] - b[1] - borrow + Half
  IN  <<hi % Half, lo % Half>>

\* a > n for a 32-bit a and a constant n below 2^16
Gt32(a, n) == a[1] > 0 \/ a[2] > n

millis == clock

\* amounts by which the clock advances between two statements:
\* 1 ms, 60000 ms, and 2^32 - 60000 ms (one interval short of a full turn
\* of the clock)
Deltas == {U32(0, 1), U32(0, 60000), U32(65535, 5536)}

Over == Interval + 1

Min(a, b) == IF a < b THEN a ELSE b

\* true elapsed time, kept exactly up to Interval and as "more" beyond it
SatAdd(e, d) == IF d[1] > 0 THEN Over ELSE Min(e + d[2], Over)

\* a + d does not fit in 32 bits
Carries(a, d) == a[1] + d[1] + ((a[2] + d[2]) \div Half) >= Half

\* whether 2^32 ms or more have passed since lastSendTime was assigned, once
\* d more ms have passed
WrappedAfter(d) == wrapped \/ Carries(Sub32(clock, lastSendTime), d)

----------------------------------------------------------------------------
(* Serial output and driver call recording *)

SerialPrint(line) == log' = Append(log, line)

Call(op) == calls' = Append(calls, op)

Returned(op, c) ==
  driverRet' = [o \in DOMAIN driverRet \cup {op} |-> IF o = op THEN c ELSE driverRet[o]]

HasReturned(op) == op \in DOMAIN driverRet

hw == <<pinMode14, pinLevel14, spiBegun, bringUpOk>>
timing == <<clock, ticks, sinceStamp, sinceInvoke, wrapped>>
schedCore == <<lastSendTime, gapAtStamp, gapAtInvoke, payload, loopState, lastCall>>
sched == <<schedCore, passes>>

----------------------------------------------------------------------------
Init ==
  /\ pc = "serialBegin"
  /\ serialReady = FALSE
  /\ pinMode14 = "INPUT"
  /\ pinLevel14 = "LOW"
  /\ spiBegun = FALSE
  /\ bringUpOk = TRUE
  /\ state = 0
  /\ loopState = 0
  /\ macVersion = "default"
  /\ clock = U32(0, 0)
  /\ lastSendTime = U32(0, 0)
  /\ payload = <<>>
  /\ log = <<>>
  /\ calls = <<>>
  /\ driverRet = [op \in {} |-> 0]
  /\ ticks = 0
  /\ sinceStamp = 0
  /\ gapAtStamp = 0
  /\ sinceInvoke = 0
  /\ gapAtInvoke = 0
  /\ wrapped = FALSE
  /\ lastCall = [blocked |-> 0, wrapped |-> FALSE]
  /\ passes = 0

----------------------------------------------------------------------------
(* Environment *)

\* time passes
Tick ==
  /\ ticks < MaxTicks
  /\ \E d \in Deltas :
       /\ clock' = Add32(clock, d)
       /\ sinceStamp' = SatAdd(sinceStamp, d)
       /\ sinceInvoke' = SatAdd(sinceInvoke, d)
       /\ wrapped' = WrappedAfter(d)
  /\ ticks' = ticks + 1
  /\ UNCHANGED <<pc, serialReady, hw, state, macVersion, sched, log, calls, driverRet>>

\* the host opens the serial port
SerialOpen ==
  /\ ~serialReady
  /\ serialReady' = TRUE
  /\ UNCHANGED <<pc, hw, state, macVersion, timing, sched, log, calls, driverRet>>

----------------------------------------------------------------------------
(* setup() *)

Goto(from, to) == pc = from /\ pc' = to

SerialBegin ==
  /\ Goto("serialBegin", "waitSerial")
  /\ UNCHANGED <<serialReady, hw, state, macVersion, timing, sched, log, calls, driverRet>>

\* while (!Serial) { delay(10); }
WaitSerial ==
  /\ pc = "waitSerial"
  /\ ~serialReady
  /\ ticks < MaxTicks
  /\ clock' = Add32(clock, U32(0, 10))
  /\ sinceStamp' = SatAdd(sinceStamp, U32(0, 10))
  /\ sinceInvoke' = SatAdd(sinceInvoke, U32(0, 10))
  /\ wrapped' = WrappedAfter(U32(0, 10))
  /\ ticks' = ticks + 1
  /\ UNCHANGED <<pc, serialReady, hw, state, macVersion, sched, log, calls, driverRet>>

\* variant: setup() goes on without waiting for the serial port
SerialIsReady_noWait ==
  /\ pc = "waitSerial"
  /\ pc' = "banner"
  /\ UNCHANGED <<serialReady, hw, state, macVersion, timing, sched, log, calls, driverRet>>

SerialIsReady ==
  /\ pc = "waitSerial"
  /\ serialReady
  /\ pc' = "banner"
  /\ UNCHANGED <<serialReady, hw, state, macVersion, timing, sched, log, calls, driverRet>>

Banner ==
  /\ Goto("banner", "printPower")
  /\ log' = log \o << <<"--------------------------------">>,
                      <<"Heltec V3 Stable LoRaWAN (RadioLib)">>,
                      <<"--------------------------------">> >>
  /\ UNCHANGED <<serialReady, hw, state, macVersion, timing, sched, calls, driverRet>>

PrintPower ==
  /\ Goto("printPower", "pinMode")
  /\ SerialPrint(<<"Powering RF Switch (Pin 14)... ">>)
  /\ UNCHANGED <<serialReady, hw, state, macVersion, timing, sched, calls, driverRet>>

PinModeOutput ==
  /\ Goto("pinMode", "digitalWrite")
  /\ pinMode14' = "OUTPUT"
  /\ UNCHANGED <<serialReady, pinLevel14, spiBegun, bringUpOk, state, macVersion,
                 timing, sched, log, calls, driverRet>>

\* variant: the pin is made an output but left LOW
DigitalWriteHigh_leftLow ==
  /\ Goto("digitalWrite", "printPowerOK")
  /\ pinLevel14' = "LOW"
  /\ UNCHANGED <<serialReady, pinMode14, spiBegun, bringUpOk, state, macVersion,
                 timing, sched, log, calls, driverRet>>

DigitalWriteHigh ==
  /\ Goto("digitalWrite", "printPowerOK")
  /\ pinLevel14' = "HIGH"
  /\ UNCHANGED <<serialReady, pinMode14, spiBegun, bringUpOk, state, macVersion,
                 timing, sched, log, calls, driverRet>>

PrintPowerOK ==
  /\ Goto("printPowerOK", "printSpi")
  /\ SerialPrint(<<"OK">>)
  /\ UNCHANGED <<serialReady, hw, state, macVersion, timing, sched, calls, driverRet>>

PrintSpi ==
  /\ Goto("printSpi", "spiBegin")
  /\ SerialPrint(<<"Configuring SPI... ">>)
  /\ UNCHANGED <<serialReady, hw, state, macVersion, timing, sched, calls, driverRet>>

\* SPI.begin(...): the call may fail on the hardware; its result is discarded
SpiBegin ==
  /\ Goto("spiBegin", "printSpiOK")
  /\ spiBegun' = TRUE
  /\ bringUpOk' \in BOOLEAN
  /\ UNCHANGED <<serialReady, pinMode14, pinLevel14, state, macVersion,
                 timing, sched, log, calls, driverRet>>

PrintSpiOK ==
  /\ Goto("printSpiOK", "printInit")
  /\ SerialPrint(<<"OK">>)
  /\ UNCHANGED <<serialReady, hw, state, macVersion, timing, sched, calls, driverRet>>

PrintInit ==
  /\ Goto("printInit", "setDio2")
  /\ SerialPrint(<<"Initializing SX1262 radio... ">>)
  /\ UNCHANGED <<serialReady, hw, state, macVersion, timing, sched, calls, driverRet>>

\* int state = radio.setDio2AsRfSwitch(true);
SetDio2AsRfSwitch ==
  /\ Goto("setDio2", "checkDio2")
  /\ Call("setDio2AsRfSwitch")
  /\ \E c \in Codes : state' = c /\ Returned("setDio2AsRfSwitch", c)
  /\ UNCHANGED <<serialReady, hw, macVersion, timing, sched, log>>

\* variant: a switch-mode failure is treated as fatal
CheckDio2_fatal ==
  /\ pc = "checkDio2"
  /\ IF state # RADIOLIB_ERR_NONE
       THEN SerialPrint(<<"setDio2AsRfSwitch failed! Code: ", state>>) /\ pc' = "halted"
       ELSE UNCHANGED log /\ pc' = "radioBegin"
  /\ UNCHANGED <<serialReady, hw, state, macVersion, timing, sched, calls, driverRet>>

\* variant: a switch-mode failure is not printed
CheckDio2_silent ==
  /\ Goto("checkDio2", "radioBegin")
  /\ UNCHANGED <<serialReady, hw, state, macVersion, timing, sched, log, calls, driverRet>>

\* if (state != RADIOLIB_ERR_NONE) { print ... }
CheckDio2 ==
  /\ Goto("checkDio2", "radioBegin")
  /\ IF state # RADIOLIB_ERR_NONE
       THEN SerialPrint(<<"setDio2AsRfSwitch failed! Code: ", state>>)
       ELSE UNCHANGED log
  /\ UNCHANGED <<serialReady, hw, state, macVersion, timing, sched, calls, driverRet>>

\* state = radio.begin();
RadioBegin ==
  /\ Goto("radioBegin", "checkBegin")
  /\ Call("begin")
  /\ \E c \in Codes : state' = c /\ Returned("begin", c)
  /\ UNCHANGED <<serialReady, hw, macVersion, timing, sched, log>>

\* variant: a failed radio init is printed but setup() goes on
CheckBegin_noHalt ==
  /\ Goto("checkBegin", "printForce")
  /\ IF state = RADIOLIB_ERR_NONE
       THEN SerialPrint(<<"Radio init SUCCEEDED!">>)
       ELSE SerialPrint(<<"Radio init FAILED! Code: ", state>>)
  /\ UNCHANGED <<serialReady, hw, state, macVersion, timing, sched, calls, driverRet>>

\* if (state == RADIOLIB_ERR_NONE) ... else { ...; while (true); }
CheckBegin ==
  /\ pc = "checkBegin"
  /\ IF state = RADIOLIB_ERR_NONE
       THEN SerialPrint(<<"Radio init SUCCEEDED!">>) /\ pc' = "printForce"
       ELSE SerialPrint(<<"Radio init FAILED! Code: ", state>>) /\ pc' = "halted"
  /\ UNCHANGED <<serialReady, hw, state, macVersion, timing, sched, calls, driverRet>>

PrintForce ==
  /\ Goto("printForce", "setMacVersion")
  /\ SerialPrint(<<"Forcing LoRaWAN version 1.0.3...">>)
  /\ UNCHANGED <<serialReady, hw, state, macVersion, timing, sched, calls, driverRet>>

\* variant: the version is left at the driver's default
SetMacVersion_skipped ==
  /\ Goto("setMacVersion", "printOTAA")
  /\ UNCHANGED <<serialReady, hw, state, macVersion, timing, sched, log, calls, driverRet>>

\* node.setMacVersion(LORAWAN_VERSION_1_0_3);
SetMacVersion ==
  /\ Goto("setMacVersion", "printOTAA")
  /\ Call("setMacVersion")
  /\ macVersion' = "1.0.3"
  /\ UNCHANGED <<serialReady, hw, state, timing, sched, log, driverRet>>

PrintOTAA ==
  /\ Goto("printOTAA", "beginOTAA")
  /\ SerialPrint(<<"Configuring OTAA...">>)
  /\ UNCHANGED <<serialReady, hw, state, macVersion, timing, sched, calls, driverRet>>

\* node.beginOTAA(joinEUI, devEUI, nwkKey, appKey);
BeginOTAA ==
  /\ Goto("beginOTAA", "printJoin")
  /\ Call("beginOTAA")
  /\ UNCHANGED <<serialReady, hw, state, macVersion, timing, sched, log, driverRet>>

PrintJoin ==
  /\ Goto("printJoin", "activateOTAA")
  /\ SerialPrint(<<"Attempting to join TTN (JOIN)...">>)
  /\ UNCHANGED <<serialReady, hw, state, macVersion, timing, sched, calls, driverRet>>

\* state = node.activateOTAA();
ActivateOTAA ==
  /\ Goto("activateOTAA", "checkJoin")
  /\ Call("activateOTAA")
  /\ \E c \in Codes : state' = c /\ Returned("activateOTAA", c)
  /\ UNCHANGED <<serialReady, hw, macVersion, timing, sched, log>>

\* variant: the join result is compared with the generic no-error code
CheckJoin_errNone ==
  /\ Goto("checkJoin", "setupReturn")
  /\ IF state = RADIOLIB_ERR_NONE
       THEN SerialPrint(<<"!!! JOINED SUCCESSFULLY !!!">>)
       ELSE log' = log \o << <<"Join FAILED. Error code: ", state>>,
                             <<"Check Keys (nwkKey/appKey must be identical) and TTN settings (must be 1.0.3).">> >>
  /\ UNCHANGED <<serialReady, hw, state, macVersion, timing, sched, calls, driverRet>>

\* variant: a failed join stops the sketch like a failed radio init
CheckJoin_halts ==
  /\ pc = "checkJoin"
  /\ IF state = RADIOLIB_LORAWAN_NEW_SESSION
       THEN SerialPrint(<<"!!! JOINED SUCCESSFULLY !!!">>) /\ pc' = "setupReturn"
       ELSE /\ log' = log \o << <<"Join FAILED. Error code: ", state>>,
                                <<"Check Keys (nwkKey/appKey must be identical) and TTN settings (must be 1.0.3).">> >>
            /\ pc' = "halted"
  /\ UNCHANGED <<serialReady, hw, state, macVersion, timing, sched, calls, driverRet>>

\* variant: a failed join is attempted again
CheckJoin_rejoins ==
  /\ pc = "checkJoin"
  /\ IF state = RADIOLIB_LORAWAN_NEW_SESSION
       THEN SerialPrint(<<"!!! JOINED SUCCESSFULLY !!!">>) /\ pc' = "setupReturn"
       ELSE /\ log' = log \o << <<"Join FAILED. Error code: ", state>>,
                                <<"Check Keys (nwkKey/appKey must be identical) and TTN settings (must be 1.0.3).">> >>
            /\ pc' = "printJoin"
  /\ UNCHANGED <<serialReady, hw, state, macVersion, timing, sched, calls, driverRet>>

\* if (state == RADIOLIB_LORAWAN_NEW_SESSION) ... else ...
CheckJoin ==
  /\ Goto("checkJoin", "setupReturn")
  /\ IF state = RADIOLIB_LORAWAN_NEW_SESSION
       THEN SerialPrint(<<"!!! JOINED SUCCESSFULLY !!!">>)
       ELSE log' = log \o << <<"Join FAILED. Error code: ", state>>,
                             <<"Check Keys (nwkKey/appKey must be identical) and TTN settings (must be 1.0.3).">> >>
  /\ UNCHANGED <<serialReady, hw, state, macVersion, timing, sched, calls, driverRet>>

\* variant: the interval is timed from the return of setup()
SetupReturn_timesFromJoin ==
  /\ Goto("setupReturn", "loopCheck")
  /\ passes' = 0
  /\ lastSendTime' = millis
  /\ UNCHANGED <<serialReady, hw, state, macVersion, timing, gapAtStamp, gapAtInvoke,
                 payload, loopState, lastCall, log, calls, driverRet>>

\* setup() returns and the Arduino core starts calling loop()
SetupReturn ==
  /\ Goto("setupReturn", "loopCheck")
  /\ passes' = 0
  /\ UNCHANGED <<serialReady, hw, state, macVersion, timing, schedCore, log, calls, driverRet>>

----------------------------------------------------------------------------
(* loop() *)

\* variant: the comparison is >= instead of >
IntervalElapsed_atLeast ==
  LET d == Sub32(millis, lastSendTime) IN d[1] > 0 \/ d[2] >= Interval

\* variant: the test compares the clock with an absolute deadline
IntervalElapsed_deadline ==
  LET deadline == Add32(lastSendTime, U32(0, Interval))
  IN  millis[1] > deadline[1] \/ (millis[1] = deadline[1] /\ millis[2] > deadline[2])

\* millis() - lastSendTime > 60000
IntervalElapsed ==
  Gt32(Sub32(millis, lastSendTime), Interval)

\* variant: the interval is also tested while a send is in progress
LoopCheck_preemptive ==
  /\ pc \in {"loopCheck", "inSendReceive"}
  /\ pc' = IF IntervalElapsed THEN "stamp" ELSE "loopReturn"
  /\ passes' = Min(passes + 1, 2)
  /\ UNCHANGED <<serialReady, hw, state, macVersion, timing, schedCore, log, calls, driverRet>>

\* variant: a device that has not joined sends nothing
LoopCheck_onlyWhenJoined ==
  /\ pc = "loopCheck"
  /\ pc' = IF IntervalElapsed /\ state = RADIOLIB_LORAWAN_NEW_SESSION
             THEN "stamp" ELSE "loopReturn"
  /\ passes' = Min(passes + 1, 2)
  /\ UNCHANGED <<serialReady, hw, state, macVersion, timing, schedCore, log, calls, driverRet>>

\* if (millis() - lastSendTime > 60000): a pass that finds it false returns
LoopCheck ==
  /\ pc = "loopCheck"
  /\ pc' = IF IntervalElapsed THEN "stamp" ELSE "loopReturn"
  /\ passes' = Min(passes + 1, 2)
  /\ UNCHANGED <<serialReady, hw, state, macVersion, timing, schedCore, log, calls, driverRet>>

\* lastSendTime = millis();
Stamp ==
  /\ Goto("stamp", "printSending")
  /\ lastSendTime' = millis
  /\ gapAtStamp' = sinceStamp
  /\ sinceStamp' = 0
  /\ wrapped' = FALSE
  /\ UNCHANGED <<serialReady, hw, state, macVersion, clock, ticks, sinceInvoke,
                 gapAtInvoke, payload, loopState, lastCall, passes, log,
                 calls, driverRet>>

PrintSending ==
  /\ Goto("printSending", "sendCall")
  /\ log' = log \o << <<"">>, <<"Sending 'Hello' packet... ">> >>
  /\ UNCHANGED <<serialReady, hw, state, macVersion, timing, sched, calls, driverRet>>

\* variant: after a failed send an empty payload is sent
SendReceiveCall_emptyAfterFailure ==
  /\ Goto("sendCall", "inSendReceive")
  /\ payload' = IF loopState = RADIOLIB_ERR_NONE THEN HelloPayload ELSE <<>>
  /\ Call("sendReceive")
  /\ gapAtInvoke' = sinceInvoke
  /\ sinceInvoke' = 0
  /\ UNCHANGED <<serialReady, hw, state, macVersion, clock, ticks, sinceStamp,
                 wrapped, gapAtStamp, lastSendTime, loopState, lastCall,
                 passes, log, driverRet>>

\* uint8_t payload[] = {...}; node.sendReceive(payload, sizeof(payload)) is entered
SendReceiveCall ==
  /\ Goto("sendCall", "inSendReceive")
  /\ payload' = HelloPayload
  /\ Call("sendReceive")
  /\ gapAtInvoke' = sinceInvoke
  /\ sinceInvoke' = 0
  /\ UNCHANGED <<serialReady, hw, state, macVersion, clock, ticks, sinceStamp,
                 wrapped, gapAtStamp, lastSendTime, loopState, lastCall,
                 passes, log, driverRet>>

\* variant: the interval is timed from the return of the send
SendReceiveReturn_timesFromReturn ==
  /\ Goto("inSendReceive", "checkSend")
  /\ \E c \in Codes : loopState' = c /\ Returned("sendReceive", c)
  /\ lastCall' = [blocked |-> sinceInvoke, wrapped |-> wrapped]
  /\ passes' = 0
  /\ lastSendTime' = millis
  /\ UNCHANGED <<serialReady, hw, state, macVersion, timing,
                 gapAtStamp, gapAtInvoke, payload, log, calls>>

\* int state = <value returned by node.sendReceive>
SendReceiveReturn ==
  /\ Goto("inSendReceive", "checkSend")
  /\ \E c \in Codes : loopState' = c /\ Returned("sendReceive", c)
  /\ lastCall' = [blocked |-> sinceInvoke, wrapped |-> wrapped]
  /\ passes' = 0
  /\ UNCHANGED <<serialReady, hw, state, macVersion, timing, lastSendTime,
                 gapAtStamp, gapAtInvoke, payload, log, calls>>

\* variant: a failed send is retried at once by clearing the timestamp
CheckSend_retriesAtOnce ==
  /\ Goto("checkSend", "loopReturn")
  /\ IF loopState = RADIOLIB_ERR_NONE
       THEN SerialPrint(<<"Packet sent!">>) /\ UNCHANGED lastSendTime
       ELSE /\ SerialPrint(<<"Send FAILED. Error code: ", loopState>>)
            /\ lastSendTime' = Sub32(millis, U32(0, Interval + 1))
  /\ UNCHANGED <<serialReady, hw, state, macVersion, timing, gapAtStamp,
                 gapAtInvoke, payload, loopState, lastCall, passes, calls,
                 driverRet>>

\* if (state == RADIOLIB_ERR_NONE) ... else ...
CheckSend ==
  /\ Goto("checkSend", "loopReturn")
  /\ IF loopState = RADIOLIB_ERR_NONE
       THEN SerialPrint(<<"Packet sent!">>)
       ELSE SerialPrint(<<"Send FAILED. Error code: ", loopState>>)
  /\ UNCHANGED <<serialReady, hw, state, macVersion, timing, sched, calls, driverRet>>

\* loop() returns and is called again
LoopReturn ==
  /\ Goto("loopReturn", "loopCheck")
  /\ UNCHANGED <<serialReady, hw, state, macVersion, timing, sched, log, calls, driverRet>>

----------------------------------------------------------------------------
(* Vocabulary of the properties *)

Has(seq, x) == \E i \in DOMAIN seq : seq[i] = x

\* number of entries of seq that are in the set S
CountIn(seq, S) == Cardinality({i \in DOMAIN seq : seq[i] \in S})

SendCount == CountIn(calls, {"sendReceive"})

\* number of times lastSendTime has been assigned
StampCount == SendCount + (IF pc \in {"printSending", "sendCall"} THEN 1 ELSE 0)

LoopPcs == {"loopCheck", "stamp", "printSending", "sendCall", "inSendReceive",
            "checkSend", "loopReturn"}

\* positions at which the next statement is a Radio/MAC driver call
DriverCallPcs == {"setDio2", "radioBegin", "setMacVersion", "beginOTAA",
                  "activateOTAA", "sendCall"}

JoinedLine == <<"!!! JOINED SUCCESSFULLY !!!">>
JoinFailedLine(c) == <<"Join FAILED. Error code: ", c>>
SwitchFailedLine(c) == <<"setDio2AsRfSwitch failed! Code: ", c>>
SendFailedLine(c) == <<"Send FAILED. Error code: ", c>>
SendResultLines == {<<"Packet sent!">>} \cup {SendFailedLine(c) : c \in Codes}

\* the join outcome as the diagnostic stream shows it
JoinOutcome ==
  IF Has(log, JoinedLine) THEN "Joined"
  ELSE IF \E c \in Codes : Has(log, JoinFailedLine(c)) THEN "JoinFailed"
  ELSE "Pending"

\* the codes carried by the join-failure lines on the stream
JoinCodesReported == {c \in Codes : Has(log, JoinFailedLine(c))}

----------------------------------------------------------------------------
(* C1: whenever a Radio/MAC driver operation has been invoked or is the    *)
(* next statement, GPIO 14 is an output driven HIGH and SPI.begin has been *)
(* called; in particular the pin is HIGH when radio.begin() is called.     *)
C1_PinAndSpiBeforeDriver ==
  (calls # <<>> \/ pc \in DriverCallPcs) =>
      /\ pinMode14 = "OUTPUT"
      /\ pinLevel14 = "HIGH"
      /\ spiBegun

C1_Witness ==
  /\ Has(calls, "begin")
  /\ pinMode14 = "OUTPUT" /\ pinLevel14 = "HIGH" /\ spiBegun

(* C2: every beginOTAA and activateOTAA call is preceded by a              *)
(* setMacVersion call, and the node's version is 1.0.3 when they are made. *)
C2_VersionBeforeJoin ==
  /\ \A i \in DOMAIN calls :
        calls[i] \in {"beginOTAA", "activateOTAA"} =>
            \E j \in 1..(i - 1) : calls[j] = "setMacVersion"
  /\ (pc \in {"beginOTAA", "activateOTAA"} \/ Has(calls, "beginOTAA")) =>
        macVersion = "1.0.3"

C2_Witness ==
  /\ Has(calls, "activateOTAA")
  /\ Has(calls, "setMacVersion")

(* C3: once the result c of activateOTAA has been examined, the outcome is *)
(* Joined exactly when c is RADIOLIB_LORAWAN_NEW_SESSION; for any other c, *)
(* the no-error code included, it is JoinFailed and the code reported is c *)
(* and no other.                                                           *)
C3_JoinOutcomeMapping ==
  LET c == driverRet["activateOTAA"] IN
  (HasReturned("activateOTAA") /\ pc # "checkJoin") =>
      /\ (JoinOutcome = "Joined") <=> (c = RADIOLIB_LORAWAN_NEW_SESSION)
      /\ (c # RADIOLIB_LORAWAN_NEW_SESSION) =>
            /\ JoinOutcome = "JoinFailed"
            /\ JoinCodesReported = {c}
      /\ (c = RADIOLIB_LORAWAN_NEW_SESSION) => JoinCodesReported = {}

C3_Witness ==
  /\ HasReturned("activateOTAA")
  /\ driverRet["activateOTAA"] = RADIOLIB_ERR_NONE
  /\ JoinOutcome = "JoinFailed"
  /\ JoinCodesReported = {RADIOLIB_ERR_NONE}

(* C4 as stated: when sendReceive is invoked for the second or a later     *)
(* time, more than 60000 ms have passed since the previous invocation.     *)
C4_InvocationsOverIntervalApart ==
  SendCount >= 2 => gapAtInvoke > Interval

(* C4 as amended: when lastSendTime is assigned for the second or a later  *)
(* time, more than 60000 ms have passed since it was assigned before, also *)
(* when the 32-bit clock wrapped in between.                               *)
C4_StampsOverIntervalApart ==
  StampCount >= 2 => gapAtStamp > Interval

\* the second stamp is taken after the clock wrapped past 2^32 - 1
C4_Witness ==
  /\ StampCount >= 2
  /\ lastSendTime = U32(0, 1)
  /\ gapAtStamp > Interval

(* C5: once radio.begin() has returned a code other than                   *)
(* RADIOLIB_ERR_NONE, the sketch is at the check or in the idle state, no  *)
(* setMacVersion, beginOTAA, activateOTAA or sendReceive call is ever      *)
(* made, and the idle state is never left and nothing is printed in it.    *)
C5_RadioInitFailureHalts ==
  /\ []((HasReturned("begin") /\ driverRet["begin"] # RADIOLIB_ERR_NONE) =>
          /\ pc \in {"checkBegin", "halted"}
          /\ CountIn(calls, {"setMacVersion", "beginOTAA", "activateOTAA",
                             "sendReceive"}) = 0)
  /\ [][pc = "halted" => (pc' = "halted" /\ UNCHANGED <<log, calls, driverRet, hw>>)]_vars

C5_Witness ==
  /\ HasReturned("begin")
  /\ driverRet["begin"] = MIC_MISMATCH
  /\ pc = "halted"
  /\ ticks > 0

(* C6: once a result c of activateOTAA other than new-session has been     *)
(* examined, the outcome is JoinFailed, c is on the diagnostic stream, the *)
(* sketch is not halted: it is at the return of setup(), which can be      *)
(* taken, or in loop().                                                    *)
C6_JoinFailureContinues ==
  LET c == driverRet["activateOTAA"] IN
  (HasReturned("activateOTAA") /\ c # RADIOLIB_LORAWAN_NEW_SESSION /\ pc # "checkJoin") =>
      /\ JoinOutcome = "JoinFailed"
      /\ Has(log, JoinFailedLine(c))
      /\ pc \in {"setupReturn"} \cup LoopPcs
      /\ pc = "setupReturn" => ENABLED SetupReturn

C6_Witness ==
  /\ HasReturned("activateOTAA")
  /\ driverRet["activateOTAA"] = MIC_MISMATCH
  /\ Has(log, JoinFailedLine(MIC_MISMATCH))
  /\ pc = "loopCheck"

(* C7: when hardware bring-up has failed, no Radio/MAC driver call is made: *)
(* in every state where the bring-up failed, the driver has not been       *)
(* called.                                                                 *)
C7_BringUpFailureHalts ==
  ~bringUpOk => calls = <<>>

----------------------------------------------------------------------------
(* Reports of the stages on the diagnostic stream *)

InitLine == <<"Initializing SX1262 radio... ">>
Last(seq) == seq[Len(seq)]

\* the line that reports a send that returned c
SendLine(c) == IF c = RADIOLIB_ERR_NONE THEN <<"Packet sent!">> ELSE SendFailedLine(c)

\* the last send result line on the stream
LastSendLine ==
  LET I == {i \in DOMAIN log : log[i] \in SendResultLines}
  IN  log[CHOOSE i \in I : \A j \in I : j <= i]

\* bring-up is reported before the first driver call
BringUpReported ==
  (pc = "setDio2" \/ calls # <<>>) =>
      /\ Has(log, <<"Powering RF Switch (Pin 14)... ">>)
      /\ Has(log, <<"Configuring SPI... ">>)
      /\ CountIn(log, {<<"OK">>}) = 2

\* a failed switch-mode set is reported before radio.begin() is called
SwitchFailureReported ==
  (pc = "radioBegin" /\ driverRet["setDio2AsRfSwitch"] # RADIOLIB_ERR_NONE) =>
      Last(log) = SwitchFailedLine(driverRet["setDio2AsRfSwitch"])

\* a successful switch-mode set has put a line on the stream before
\* radio.begin() is called
SwitchSuccessReported ==
  (pc = "radioBegin" /\ driverRet["setDio2AsRfSwitch"] = RADIOLIB_ERR_NONE) =>
      Last(log) # InitLine

\* a successful switch-mode set leaves the stream as it was
SwitchSuccessSilent ==
  (pc = "radioBegin" /\ driverRet["setDio2AsRfSwitch"] = RADIOLIB_ERR_NONE) =>
      Last(log) = InitLine

\* the radio init result is reported before the version is forced or the halt
RadioInitReported ==
  (HasReturned("begin") /\ pc # "checkBegin") =>
      IF driverRet["begin"] = RADIOLIB_ERR_NONE
        THEN Has(log, <<"Radio init SUCCEEDED!">>)
        ELSE Has(log, <<"Radio init FAILED! Code: ", driverRet["begin"]>>)

\* the version forcing is on the stream before OTAA is configured
VersionReported ==
  (pc = "beginOTAA" \/ Has(calls, "beginOTAA")) =>
      Has(log, <<"Forcing LoRaWAN version 1.0.3...">>)

\* the join result is reported before setup() returns
JoinReported ==
  (HasReturned("activateOTAA") /\ pc # "checkJoin") =>
      IF driverRet["activateOTAA"] = RADIOLIB_LORAWAN_NEW_SESSION
        THEN Has(log, JoinedLine)
        ELSE Has(log, JoinFailedLine(driverRet["activateOTAA"]))

\* every send that returned is reported, with its own code, before the pass ends
SendsReported ==
  (pc \notin {"inSendReceive", "checkSend"}) =>
      /\ CountIn(log, SendResultLines) = SendCount
      /\ SendCount > 0 => LastSendLine = SendLine(driverRet["sendReceive"])

C9_FixedPayload ==
  (pc = "inSendReceive" \/ SendCount > 0) =>
      /\ payload = <<72, 101, 108, 108, 111>>
      /\ Len(payload) = 5

\* a second send, made after a failed join and a failed first send
C9_Witness ==
  /\ pc = "inSendReceive"
  /\ SendCount = 2
  /\ JoinOutcome = "JoinFailed"
  /\ driverRet["sendReceive"] = MIC_MISMATCH
  /\ payload = <<72, 101, 108, 108, 111>>

(* C10: whatever code setDio2AsRfSwitch returned, the sketch does not      *)
(* halt on it: it goes on to radio.begin(), which is the driver call made  *)
(* next, and a failure code changes nothing but the diagnostic stream.     *)
C10_SwitchFailureContinues ==
  /\ HasReturned("setDio2AsRfSwitch") =>
        \/ pc = "checkDio2"
        \/ pc = "radioBegin" /\ ENABLED RadioBegin
        \/ Has(calls, "begin")
  /\ \A i \in DOMAIN calls :
        (calls[i] = "setDio2AsRfSwitch" /\ i < Len(calls)) => calls[i + 1] = "begin"
  /\ pc = "radioBegin" =>
        /\ pinMode14 = "OUTPUT" /\ pinLevel14 = "HIGH" /\ spiBegun
        /\ macVersion = "default"

C10_Witness ==
  /\ HasReturned("setDio2AsRfSwitch")
  /\ driverRet["setDio2AsRfSwitch"] = MIC_MISMATCH
  /\ Has(calls, "begin")
  /\ Has(log, SwitchFailedLine(MIC_MISMATCH))

----------------------------------------------------------------------------
(* The join controller's state, read off the driver calls made and the     *)
(* join result printed *)

JoinState ==
  IF JoinOutcome # "Pending" THEN JoinOutcome
  ELSE IF Has(calls, "beginOTAA") THEN "Joining"
  ELSE IF Has(calls, "setMacVersion") THEN "VersionForced"
  ELSE IF HasReturned("begin") /\ driverRet["begin"] = RADIOLIB_ERR_NONE
       THEN "RadioInitialized"
  ELSE IF HasReturned("setDio2AsRfSwitch") THEN "SwitchConfigured"
  ELSE "Idle"

\* the states that may follow each state in one step
JoinSuccessors(s) ==
  CASE s = "Idle" -> {"SwitchConfigured"}
    [] s = "SwitchConfigured" -> {"RadioInitialized"}
    [] s = "RadioInitialized" -> {"VersionForced"}
    [] s = "VersionForced" -> {"Joining"}
    [] s = "Joining" -> {"Joined", "JoinFailed"}
    [] OTHER -> {}

(* C11: the join controller's state changes only along Idle ->             *)
(* SwitchConfigured -> RadioInitialized -> VersionForced -> Joining ->     *)
(* {Joined, JoinFailed}, one state at a time; Joined and JoinFailed are    *)
(* never left; activateOTAA is invoked at most once and has returned       *)
(* before sendReceive is first invoked.                                    *)
C11_JoinStateMachine ==
  /\ [][JoinState' # JoinState => JoinState' \in JoinSuccessors(JoinState)]_vars
  /\ [](CountIn(calls, {"activateOTAA"}) <= 1)
  /\ []((SendCount > 0 \/ pc \in LoopPcs) =>
          /\ HasReturned("activateOTAA")
          /\ JoinState \in {"Joined", "JoinFailed"})

C11_Witness ==
  /\ JoinState = "JoinFailed"
  /\ SendCount = 2
  /\ CountIn(calls, {"activateOTAA"}) = 1

(* C12: whatever code sendReceive returns, the return and the report leave *)
(* lastSendTime as it was and end the pass normally; the sketch stays in   *)
(* loop(), and after a send a pass starts the next send exactly when more  *)
(* than 60000 ms (modulo 2^32) have passed since lastSendTime, whatever    *)
(* the last send returned.                                                 *)
C12_FailedSendKeepsSchedule ==
  /\ [][(pc \in {"inSendReceive", "checkSend"}) => UNCHANGED lastSendTime]_vars
  /\ [][(pc = "checkSend" /\ pc' # pc) => pc' = "loopReturn"]_vars
  /\ [](SendCount > 0 => pc \in LoopPcs)
  /\ [][(pc = "loopCheck" /\ pc' # pc /\ SendCount > 0) =>
          ((pc' = "stamp") <=> Gt32(Sub32(clock, lastSendTime), 60000))]_vars

\* a pass starts the send that follows a failed send, one interval later
C12_Witness ==
  /\ pc = "stamp"
  /\ SendCount = 1
  /\ driverRet["sendReceive"] = MIC_MISMATCH
  /\ Has(log, SendFailedLine(MIC_MISMATCH))
  /\ sinceStamp > Interval

(* C16 as stated: sendReceive is called with lastSendTime holding a clock  *)
(* value read before the call; and when a call that blocked for more than  *)
(* 60000 ms has returned less than 2^32 ms after that clock value was      *)
(* read, the first test of the interval after the return starts a send.    *)
C16_LongCallSendsOnNextPass ==
  /\ [](pc = "inSendReceive" => sinceInvoke <= sinceStamp)
  /\ []((StampCount >= 1 /\ sinceStamp <= Interval) =>
          Add32(lastSendTime, U32(0, sinceStamp)) = clock)
  /\ [][(pc = "loopCheck" /\ pc' # pc /\ passes = 0 /\ SendCount > 0
           /\ lastCall.blocked > Interval /\ ~lastCall.wrapped) =>
          pc' = "stamp"]_vars

(* C16 as amended: the same, when less than 2^32 ms have passed since that *)
(* clock value was read at the moment of the test, not only at the return. *)
C16_LongCallSendsOnNextPassUnlessWrapped ==
  /\ [](pc = "inSendReceive" => sinceInvoke <= sinceStamp)
  /\ []((StampCount >= 1 /\ sinceStamp <= Interval) =>
          Add32(lastSendTime, U32(0, sinceStamp)) = clock)
  /\ [][(pc = "loopCheck" /\ pc' # pc /\ passes = 0 /\ SendCount > 0
           /\ lastCall.blocked > Interval /\ ~wrapped) =>
          pc' = "stamp"]_vars

\* the first pass after a call that blocked for more than the interval has
\* found the interval elapsed
C16_Witness ==
  /\ pc = "stamp"
  /\ passes = 1
  /\ SendCount = 1
  /\ lastCall.blocked > Interval
  /\ ~wrapped

(* C17 as stated: lastSendTime is 0 until it is first assigned; a pass     *)
(* made 60000 ms or less after boot starts no send; the first pass of      *)
(* loop(), when made more than 60000 ms after boot, starts a send.         *)
C17_FirstSendTimedFromBoot ==
  /\ [](StampCount = 0 => lastSendTime = U32(0, 0))
  /\ [][(pc = "loopCheck" /\ pc' # pc /\ StampCount = 0 /\ sinceStamp <= Interval) =>
          pc' = "loopReturn"]_vars
  /\ [][(pc = "loopCheck" /\ pc' # pc /\ passes = 0 /\ SendCount = 0
           /\ sinceStamp > Interval) =>
          pc' = "stamp"]_vars

(* C17 as amended: the same, the first pass starting a send when it is     *)
(* made more than 60000 ms and less than 2^32 ms after boot.               *)
C17_FirstSendTimedFromBootUnlessWrapped ==
  /\ [](StampCount = 0 => lastSendTime = U32(0, 0))
  /\ [][(pc = "loopCheck" /\ pc' # pc /\ StampCount = 0 /\ sinceStamp <= Interval) =>
          pc' = "loopReturn"]_vars
  /\ [][(pc = "loopCheck" /\ pc' # pc /\ passes = 0 /\ SendCount = 0
           /\ sinceStamp > Interval /\ ~wrapped) =>
          pc' = "stamp"]_vars

\* the first pass of loop(), made more than the interval after boot, has
\* found the interval elapsed
C17_Witness ==
  /\ pc = "stamp"
  /\ passes = 1
  /\ SendCount = 0
  /\ sinceStamp > Interval
  /\ ~wrapped

\* number of sendReceive calls that have returned and been reported
SendsReturned == CountIn(log, SendResultLines) + (IF pc = "checkSend" THEN 1 ELSE 0)

(* C14: at most one sendReceive call is in progress; from its start to its *)
(* return, however much time passes, the only step the sketch takes is the *)
(* return: the interval is not tested, lastSendTime is not assigned,       *)
(* nothing is printed and no driver operation is invoked.                  *)
C14_OneSendInFlight ==
  /\ [](SendCount - SendsReturned \in {0, 1})
  /\ []((SendCount - SendsReturned = 1) <=> (pc = "inSendReceive"))
  /\ [][(pc = "inSendReceive") =>
          /\ pc' \in {"inSendReceive", "checkSend"}
          /\ UNCHANGED <<calls, lastSendTime, log>>]_vars

\* a call in progress for more than the interval, the interval being elapsed
C14_Witness ==
  /\ pc = "inSendReceive"
  /\ sinceInvoke > Interval
  /\ IntervalElapsed
  /\ SendCount - SendsReturned = 1

(* C15: the test of the interval gives the same result after JoinFailed as *)
(* after Joined: a pass starts a send exactly when more than 60000 ms      *)
(* (modulo 2^32) have passed since lastSendTime, and every send started is *)
(* a call of sendReceive with the five bytes of "Hello".                   *)
C15_ScheduleIgnoresJoinOutcome ==
  /\ [][(pc = "loopCheck" /\ pc' # pc) =>
          /\ JoinOutcome \in {"Joined", "JoinFailed"}
          /\ (pc' = "stamp") <=> Gt32(Sub32(clock, lastSendTime), 60000)]_vars
  /\ [][(pc = "stamp" /\ pc' # pc) => pc' = "printSending"]_vars
  /\ [][(pc = "printSending" /\ pc' # pc) => pc' = "sendCall"]_vars
  /\ [][(pc = "sendCall" /\ pc' # pc) =>
          /\ pc' = "inSendReceive"
          /\ calls' = Append(calls, "sendReceive")
          /\ payload' = <<72, 101, 108, 108, 111>>]_vars

\* a device that failed to join starts its second send
C15_Witness ==
  /\ JoinOutcome = "JoinFailed"
  /\ driverRet["activateOTAA"] = MIC_MISMATCH
  /\ pc = "sendCall"
  /\ SendCount = 1

(* C18: as long as the serial port has not been ready, setup() is at its   *)
(* start or polling: GPIO 14 is not driven, SPI.begin and the driver have  *)
(* not been called, nothing is printed and loop() is not entered.          *)
C18_NothingBeforeSerialReady ==
  ~serialReady =>
      /\ pc \in {"serialBegin", "waitSerial"}
      /\ pinMode14 = "INPUT" /\ pinLevel14 = "LOW"
      /\ ~spiBegun
      /\ calls = <<>>
      /\ log = <<>>

\* setup() has polled the serial port, which is still not ready
C18_Witness ==
  /\ ~serialReady
  /\ pc = "waitSerial"
  /\ clock = U32(0, 20)
  /\ pinLevel14 = "LOW"
  /\ calls = <<>>

----------------------------------------------------------------------------
Next ==
  \/ Tick \/ SerialOpen
  \/ SerialBegin \/ WaitSerial \/ SerialIsReady \/ Banner
  \/ PrintPower \/ PinModeOutput \/ DigitalWriteHigh \/ PrintPowerOK
  \/ PrintSpi \/ SpiBegin \/ PrintSpiOK
  \/ PrintInit \/ SetDio2AsRfSwitch \/ CheckDio2 \/ RadioBegin \/ CheckBegin
  \/ PrintForce \/ SetMacVersion \/ PrintOTAA \/ BeginOTAA
  \/ PrintJoin \/ ActivateOTAA \/ CheckJoin \/ SetupReturn
  \/ LoopCheck \/ Stamp \/ PrintSending \/ SendReceiveCall
  \/ SendReceiveReturn \/ CheckSend \/ LoopReturn

Spec == Init /\ [][Next]_vars

\* the steps of loop(), the return of sendReceive included
LoopStep ==
  \/ LoopCheck \/ Stamp \/ PrintSending \/ SendReceiveCall
  \/ SendReceiveReturn \/ CheckSend \/ LoopReturn

\* the single thread keeps executing loop() and every sendReceive call returns
FairSpec == Spec /\ WF_vars(LoopStep)

====
